---- MODULE Spec2Model ----
(***************************************************************************)
(* A model of icu4c/source/common/umutex.c: the global ICU mutex, the      *)
(* inc/dec guard mutex, caller-owned UMTX slots, the registered mutex and  *)
(* atomic callbacks, and the atomic increment / decrement.                 *)
(*                                                                         *)
(* The functions of umutex.c are operators over a state record s (one      *)
(* field per static variable of the file, plus the heap of lock objects    *)
(* and each thread's stack frame).  The two functions whose interleaving   *)
(* matters, umtx_init on a non-global slot and the POSIX guard-mutex path  *)
(* of umtx_atomic_inc / umtx_atomic_dec, are cut at every access to shared *)
(* memory (Step); a whole call is the run of its steps to the return       *)
(* (Run).  Spec takes whole calls as actions (the states between           *)
(* operations); SpecRace and SpecAtomic take single steps.                 *)
(*                                                                         *)
(* A lock or unlock primitive applied to something that is not a live lock *)
(* object of its own implementation is undefined behaviour: the model      *)
(* records the call with ok = FALSE and gives it no effect on the model's  *)
(* state; a crash is the behaviour that stops there.                       *)
(***************************************************************************)
EXTENDS Integers, Sequences, FiniteSets, TLC

\* ------------------------------------------------------------------ bounds
NThreads == 2
NHandles == 1
MaxObj == 3
MaxCtx == 1
MaxCount == 2
MaxCalls == 2
MaxDepth == 2
MaxChoices == 5

NULL == 0

Threads == 1..NThreads
UserHandles == 1..NHandles
ObjIds == 1..(MaxObj + NThreads)
\* The opaque context values a caller may register; NULL is one of them.
Contexts == 0..MaxCtx
\* A callback argument is NULL or the address of a caller's function.
UserFn == NULL + 1
FnPtrs == {NULL, UserFn}

\* POSIX is defined unless the platform is Windows; ICU_USE_THREADS is 0 or 1.
Platforms == {"posix", "win32", "posix_nothreads"}

U_ZERO_ERROR == "U_ZERO_ERROR"
U_USING_FALLBACK_WARNING == "U_USING_FALLBACK_WARNING"
U_ILLEGAL_ARGUMENT_ERROR == "U_ILLEGAL_ARGUMENT_ERROR"
U_INVALID_STATE_ERROR == "U_INVALID_STATE_ERROR"
StatusCodes ==
    {U_ZERO_ERROR, U_USING_FALLBACK_WARNING, U_ILLEGAL_ARGUMENT_ERROR,
     U_INVALID_STATE_ERROR}
U_FAILURE(status) ==
    status \in {U_ILLEGAL_ARGUMENT_ERROR, U_INVALID_STATE_ERROR}

VARIABLES
    gGlobalMutex, gIncDecMutex, gRecursionCount,
    pMutexInitFn, pMutexDestroyFn, pMutexLockFn, pMutexUnlockFn, gMutexContext,
    pIncFn, pDecFn, gIncDecContext,
    gHeapInUse,     \* cmemory.c's flag behind cmemory_inUse()
    platform,       \* the build: one of Platforms
    debug,          \* U_ASSERT and _DEBUG compiled in
    userMutex,      \* the caller-owned UMTX slots
    objs,           \* the lock objects: the heap
    counter,        \* the int32_t the atomic functions are handed
    aborted,        \* a U_ASSERT has failed in a debug build
    frame,          \* each thread's stack frame
    heapSize,       \* how many lock objects the allocators can hand out
    ncalls,         \* calls each thread has started
    returns,        \* the atomic calls that have returned: <<function, value>>
    regContext,     \* the context the last successful
                    \* u_setAtomicIncDecFunctions was given (SpecCount)
    startedLive     \* whether the global mutex was live when the threads
                    \* started

vars ==
    <<gGlobalMutex, gIncDecMutex, gRecursionCount, pMutexInitFn, pMutexDestroyFn,
      pMutexLockFn, pMutexUnlockFn, gMutexContext, pIncFn, pDecFn, gIncDecContext,
      gHeapInUse, platform, debug, userMutex, objs, counter, aborted, frame,
      heapSize, ncalls, returns, regContext, startedLive>>

\* ------------------------------------------------------------ state record
S ==
    [gGlobalMutex |-> gGlobalMutex, gIncDecMutex |-> gIncDecMutex,
     gRecursionCount |-> gRecursionCount,
     pMutexInitFn |-> pMutexInitFn, pMutexDestroyFn |-> pMutexDestroyFn,
     pMutexLockFn |-> pMutexLockFn, pMutexUnlockFn |-> pMutexUnlockFn,
     gMutexContext |-> gMutexContext,
     pIncFn |-> pIncFn, pDecFn |-> pDecFn, gIncDecContext |-> gIncDecContext,
     gHeapInUse |-> gHeapInUse, platform |-> platform, debug |-> debug,
     userMutex |-> userMutex, objs |-> objs, counter |-> counter,
     aborted |-> aborted, frame |-> frame, heapSize |-> heapSize,
     status |-> U_ZERO_ERROR,  \* the caller's *status
     ret |-> 0,            \* what the call returns
     calls |-> <<>>,       \* the primitives and callbacks the call has invoked
     oracle |-> <<>>,      \* outcomes of the constructions still to come
     starved |-> FALSE,    \* a construction found no outcome in the oracle
     blocked |-> FALSE]    \* the thread waits for a lock another thread holds

Set(s) ==
    /\ gGlobalMutex' = s.gGlobalMutex
    /\ gIncDecMutex' = s.gIncDecMutex
    /\ gRecursionCount' = s.gRecursionCount
    /\ pMutexInitFn' = s.pMutexInitFn
    /\ pMutexDestroyFn' = s.pMutexDestroyFn
    /\ pMutexLockFn' = s.pMutexLockFn
    /\ pMutexUnlockFn' = s.pMutexUnlockFn
    /\ gMutexContext' = s.gMutexContext
    /\ pIncFn' = s.pIncFn
    /\ pDecFn' = s.pDecFn
    /\ gIncDecContext' = s.gIncDecContext
    /\ gHeapInUse' = s.gHeapInUse
    /\ platform' = s.platform
    /\ debug' = s.debug
    /\ userMutex' = s.userMutex
    /\ objs' = s.objs
    /\ counter' = s.counter
    /\ aborted' = s.aborted
    /\ frame' = s.frame
    /\ heapSize' = s.heapSize

\* ---------------------------------------------------------------- builds
IsPOSIX(s) == s.platform \in {"posix", "posix_nothreads"}
IsWIN32(s) == s.platform = "win32"
Threaded(s) == s.platform \in {"posix", "win32"}

\* ------------------------------------------------------------------ slots
\* A UMTX* argument: NULL, or the address of a slot.
NullArg == <<"NULL", 0>>
GlobalSlot == <<"gGlobalMutex", 0>>
IncDecSlot == <<"gIncDecMutex", 0>>
UserSlot(k) == <<"user", k>>
TempSlot(t) == <<"tMutex", t>>
\* gGlobalMutex is static: a caller names it by NULL alone.
ApiSlots == {NullArg} \cup {UserSlot(k) : k \in UserHandles}

Deref(s, m) ==
    CASE m = GlobalSlot -> s.gGlobalMutex
      [] m = IncDecSlot -> s.gIncDecMutex
      [] m[1] = "user" -> s.userMutex[m[2]]
      [] m[1] = "tMutex" -> s.frame[m[2]].tMutex

Store(s, m, v) ==
    CASE m = GlobalSlot -> [s EXCEPT !.gGlobalMutex = v]
      [] m = IncDecSlot -> [s EXCEPT !.gIncDecMutex = v]
      [] m[1] = "user" -> [s EXCEPT !.userMutex[m[2]] = v]
      [] m[1] = "tMutex" -> [s EXCEPT !.frame[m[2]].tMutex = v]

\* The address of a slot, as a UMTX value: what the no-threads build stores.
AddrOf(m) ==
    CASE m = GlobalSlot -> -1
      [] m = IncDecSlot -> -2
      [] m[1] = "user" -> -(2 + m[2])
      [] m[1] = "tMutex" -> -(2 + NHandles + m[2])

\* ------------------------------------------------------- the lock objects
Dead == [alive |-> FALSE, impl |-> "none", ctx |-> NULL, holder |-> 0, depth |-> 0]
Fresh(impl, ctx) == [alive |-> TRUE, impl |-> impl, ctx |-> ctx, holder |-> 0, depth |-> 0]

IsObj(v) == v \in ObjIds
LiveObj(s, v, impl) == IsObj(v) /\ s.objs[v].alive /\ s.objs[v].impl = impl
FreeIds(s) == {i \in 1..s.heapSize : ~s.objs[i].alive}
NewId(s) == CHOOSE i \in FreeIds(s) : \A j \in FreeIds(s) : i <= j

Call(fn, impl, ctx, obj, ok) ==
    [fn |-> fn, impl |-> impl, ctx |-> ctx, obj |-> obj, ok |-> ok]
Log(s, c) == [s EXCEPT !.calls = Append(@, c)]

\* Whether the next construction succeeds: the allocator's (or the init
\* callback's) answer, and never when no object is left to hand out.
NextSucceeds(s) == Len(s.oracle) > 0 /\ Head(s.oracle) /\ FreeIds(s) # {}
Consume(s) ==
    IF Len(s.oracle) > 0 THEN [s EXCEPT !.oracle = Tail(@)] ELSE [s EXCEPT !.starved = TRUE]

\* Every result of the call F, one per sequence of construction outcomes:
\* the oracle is as long as the longest run of F needs.
Outcomes(F(_)) ==
    LET n == CHOOSE k \in 0..MaxChoices : \A o \in [1..k -> BOOLEAN] : ~F(o).starved
    IN  {F(o) : o \in [1..n -> BOOLEAN]}

\* A thread takes a lock object: at once when it is free, again when the
\* object is recursive (a Windows critical section), and otherwise it waits.
Acquire(s, t, id, recursive) ==
    LET o == s.objs[id] IN
    IF o.holder = 0
      THEN [s EXCEPT !.objs[id].holder = t, !.objs[id].depth = 1]
    ELSE IF o.holder = t /\ recursive /\ o.depth < MaxDepth
      THEN [s EXCEPT !.objs[id].depth = @ + 1]
    ELSE [s EXCEPT !.blocked = TRUE]

Release(s, id) ==
    IF s.objs[id].depth > 1
      THEN [s EXCEPT !.objs[id].depth = @ - 1]
      ELSE [s EXCEPT !.objs[id].holder = 0, !.objs[id].depth = 0]

\* A lock that lets every caller in.
NativeLock_noExclusion(s, t, v) == Log(s, Call("lock", "native", NULL, v, TRUE))

\* pthread_mutex_lock / EnterCriticalSection on the value of a slot
NativeLock(s, t, v) ==
    IF LiveObj(s, v, "native")
      THEN Log(Acquire(s, t, v, IsWIN32(s)), Call("lock", "native", NULL, v, TRUE))
      ELSE Log(s, Call("lock", "native", NULL, v, FALSE))

\* pthread_mutex_unlock / LeaveCriticalSection
NativeUnlock(s, t, v) ==
    IF LiveObj(s, v, "native") /\ s.objs[v].holder = t
      THEN Log(Release(s, v), Call("unlock", "native", NULL, v, TRUE))
      ELSE Log(s, Call("unlock", "native", NULL, v, FALSE))

\* pthread_mutex_destroy / DeleteCriticalSection, then uprv_free
NativeDestroy(s, v) ==
    IF LiveObj(s, v, "native")
      THEN Log([s EXCEPT !.objs[v] = Dead], Call("destroy", "native", NULL, v, TRUE))
      ELSE Log(s, Call("destroy", "native", NULL, v, FALSE))

\* The registered callbacks, (*fn)(gMutexContext, mutex): a conforming
\* backend, whose lock objects are not recursive.
UserLock(s, t, m) ==
    LET v == Deref(s, m) IN
    IF LiveObj(s, v, "user")
      THEN Log(Acquire(s, t, v, FALSE), Call("lock", "user", s.gMutexContext, v, TRUE))
      ELSE Log(s, Call("lock", "user", s.gMutexContext, v, FALSE))

UserUnlock(s, t, m) ==
    LET v == Deref(s, m) IN
    IF LiveObj(s, v, "user") /\ s.objs[v].holder = t
      THEN Log(Release(s, v), Call("unlock", "user", s.gMutexContext, v, TRUE))
      ELSE Log(s, Call("unlock", "user", s.gMutexContext, v, FALSE))

UserDestroy(s, m) ==
    LET v == Deref(s, m) IN
    IF LiveObj(s, v, "user")
      THEN Log([s EXCEPT !.objs[v] = Dead], Call("destroy", "user", s.gMutexContext, v, TRUE))
      ELSE Log(s, Call("destroy", "user", s.gMutexContext, v, FALSE))

\* U_ASSERT(cond): aborts the process in a debug build, nothing otherwise.
U_ASSERT(s, cond) == IF s.debug /\ ~cond THEN [s EXCEPT !.aborted = TRUE] ELSE s

\* cmemory_inUse(): whether uprv_malloc has been called.
cmemory_inUse(s) == s.gHeapInUse

\* uprv_malloc's effect on the in-use flag.
uprv_malloc_mark(s) == [s EXCEPT !.gHeapInUse = TRUE]

\* ------------------------------------------------------------ umutex.c
Norm(m) == IF m = NullArg THEN GlobalSlot ELSE m

\* umtx_lock returning without having acquired anything.
umtx_lock_acquire_noWait(s, t, m) == s

\* umtx_lock, lines 100-118: the acquisition, through the registered lock
\* callback or the platform, and the debug recursion count.
umtx_lock_acquire(s, t, m) ==
    LET s1 == IF s.pMutexLockFn # NULL THEN UserLock(s, t, m)
              ELSE IF Threaded(s) THEN NativeLock(s, t, Deref(s, m))
              ELSE s
    IN  IF s1.blocked THEN s1
        ELSE IF IsWIN32(s) /\ s.debug /\ m = GlobalSlot
          THEN U_ASSERT([s1 EXCEPT !.gRecursionCount = @ + 1], s1.gRecursionCount + 1 = 1)
        ELSE s1

\* umtx_unlock returning without having released anything.
umtx_unlock_keepsLock(s, t, m0) == s

\* umtx_unlock without lines 140-145: the recursion count is left alone.
umtx_unlock_noDecrement(s, t, m0) ==
    LET m == Norm(m0) IN
    IF Deref(s, m) = NULL THEN U_ASSERT(s, FALSE)
    ELSE IF s.pMutexUnlockFn # NULL THEN UserUnlock(s, t, m)
    ELSE IF Threaded(s) THEN NativeUnlock(s, t, Deref(s, m))
    ELSE s

\* umtx_unlock
umtx_unlock(s, t, m0) ==
    LET m == Norm(m0) IN
    IF Deref(s, m) = NULL THEN U_ASSERT(s, FALSE)
    ELSE
      LET s1 == IF IsWIN32(s) /\ s.debug /\ m = GlobalSlot
                  THEN U_ASSERT([s EXCEPT !.gRecursionCount = @ - 1],
                                s.gRecursionCount - 1 = 0)
                  ELSE s
      IN  IF s1.aborted THEN s1
          ELSE IF s1.pMutexUnlockFn # NULL THEN UserUnlock(s1, t, m)
          ELSE IF Threaded(s1) THEN NativeUnlock(s1, t, Deref(s1, m))
          ELSE s1

\* umtx_raw_init storing an object in *mutex also when the construction is
\* reported to have failed.
umtx_raw_init_storesOnFailure(s, m) ==
    LET id == NewId(s)
        impl == IF s.pMutexInitFn # NULL THEN "user" ELSE "native"
    IN  IF s.pMutexInitFn = NULL /\ ~Threaded(s) THEN Store(s, m, AddrOf(m))
        ELSE IF FreeIds(s) = {} THEN Log(Consume(s), Call("init", impl, s.gMutexContext, NULL, TRUE))
        ELSE Store(Log([Consume(s) EXCEPT !.objs[id] = Fresh(impl, s.gMutexContext)],
                       Call("init", impl, s.gMutexContext, id, TRUE)), m, id)

\* umtx_raw_init: the platform specific allocation and initialization
umtx_raw_init(s, m) ==
    LET ok == NextSucceeds(s)
        id == NewId(s)
    IN  IF s.pMutexInitFn # NULL THEN
          IF ok
            THEN Store(Log([Consume(s) EXCEPT !.objs[id] = Fresh("user", s.gMutexContext)],
                           Call("init", "user", s.gMutexContext, id, TRUE)), m, id)
            ELSE Log(Consume(s), Call("init", "user", s.gMutexContext, NULL, TRUE))
        ELSE IF Threaded(s) THEN
          IF ok
            THEN Store(Log([uprv_malloc_mark(Consume(s)) EXCEPT !.objs[id] = Fresh("native", NULL)],
                           Call("init", "native", NULL, id, TRUE)), m, id)
            ELSE Log(uprv_malloc_mark(Consume(s)), Call("init", "native", NULL, NULL, TRUE))
        ELSE Store(s, m, AddrOf(m))

\* umtx_init, lines 220-225: the construction of the global mutex and, on
\* POSIX, of the guard, whatever became of the first construction
umtx_init_global_construct(s) ==
    LET s1 == umtx_raw_init(s, GlobalSlot)
        s2 == [s1 EXCEPT !.gRecursionCount = 0]
    IN  IF IsPOSIX(s) THEN umtx_raw_init(s2, IncDecSlot) ELSE s2

\* umtx_init without the test of line 219: it constructs every time.
umtx_init_global_always(s) == umtx_init_global_construct(s)

\* umtx_init, lines 213-226: the global mutex
umtx_init_global(s) ==
    IF s.gGlobalMutex # NULL THEN s ELSE umtx_init_global_construct(s)

\* umtx_destroy without the reset of the handle (line 288 left out).
umtx_destroy_slot_keepsHandle(s, m) ==
    IF s.pMutexDestroyFn # NULL THEN UserDestroy(s, m)
    ELSE IF Threaded(s) THEN NativeDestroy(s, Deref(s, m))
    ELSE s

\* umtx_destroy, lines 270-288: one slot
umtx_destroy_slot(s, m) ==
    LET s1 == IF s.pMutexDestroyFn # NULL THEN UserDestroy(s, m)
              ELSE IF Threaded(s) THEN NativeDestroy(s, Deref(s, m))
              ELSE s
    IN  Store(s1, m, NULL)

\* umtx_destroy
umtx_destroy(s, m0) ==
    LET m == Norm(m0) IN
    IF Deref(s, m) = NULL THEN s
    ELSE
      LET s1 == umtx_destroy_slot(s, m) IN
      IF IsPOSIX(s) /\ m = GlobalSlot /\ s1.gIncDecMutex # NULL
        THEN umtx_destroy_slot(s1, IncDecSlot)
        ELSE s1

\* u_setMutexFunctions storing the context before it checks the callbacks.
u_setMutexFunctions_storesFirst(s, context, i, d, l, u, status) ==
    IF U_FAILURE(status) THEN s
    ELSE IF i = NULL \/ d = NULL \/ l = NULL \/ u = NULL
      THEN [s EXCEPT !.status = U_ILLEGAL_ARGUMENT_ERROR, !.gMutexContext = context]
    ELSE IF cmemory_inUse(s)
      THEN [s EXCEPT !.status = U_INVALID_STATE_ERROR]
    ELSE [s EXCEPT !.pMutexInitFn = i, !.pMutexDestroyFn = d, !.pMutexLockFn = l,
                   !.pMutexUnlockFn = u, !.gMutexContext = context]

\* u_setMutexFunctions testing only the init callback for null.
u_setMutexFunctions_checksInitOnly(s, context, i, d, l, u, status) ==
    IF U_FAILURE(status) THEN s
    ELSE IF i = NULL
      THEN [s EXCEPT !.status = U_ILLEGAL_ARGUMENT_ERROR]
    ELSE IF cmemory_inUse(s)
      THEN [s EXCEPT !.status = U_INVALID_STATE_ERROR]
    ELSE [s EXCEPT !.pMutexInitFn = i, !.pMutexDestroyFn = d, !.pMutexLockFn = l,
                   !.pMutexUnlockFn = u, !.gMutexContext = context]

\* u_setMutexFunctions; s.status is *status
u_setMutexFunctions(s, context, i, d, l, u, status) ==
    IF U_FAILURE(status) THEN s
    ELSE IF i = NULL \/ d = NULL \/ l = NULL \/ u = NULL
      THEN [s EXCEPT !.status = U_ILLEGAL_ARGUMENT_ERROR]
    ELSE IF cmemory_inUse(s)
      THEN [s EXCEPT !.status = U_INVALID_STATE_ERROR]
    ELSE [s EXCEPT !.pMutexInitFn = i, !.pMutexDestroyFn = d, !.pMutexLockFn = l,
                   !.pMutexUnlockFn = u, !.gMutexContext = context]

\* (*pIncFn)(gIncDecContext, p) and (*pDecFn)(gIncDecContext, p) on a probe
\* or the counter: a conforming callback, which the log records.
UserAtomic(s, fn) == Log(s, Call(fn, "user", s.gIncDecContext, NULL, TRUE))

\* u_setAtomicIncDecFunctions testing the state of the library (line 404)
\* before the arguments (line 399).
u_setAtomicIncDecFunctions_stateFirst(s, context, ip, dp, status) ==
    IF U_FAILURE(status) THEN s
    ELSE IF cmemory_inUse(s) THEN [s EXCEPT !.status = U_INVALID_STATE_ERROR]
    ELSE IF ip = NULL \/ dp = NULL THEN [s EXCEPT !.status = U_ILLEGAL_ARGUMENT_ERROR]
    ELSE LET s1 == [s EXCEPT !.pIncFn = ip, !.pDecFn = dp] IN
         IF s.debug THEN UserAtomic(UserAtomic(s1, "inc"), "dec") ELSE s1

\* u_setAtomicIncDecFunctions; the sanity check runs inside U_ASSERT, so in
\* debug builds only, on the local testInt.
u_setAtomicIncDecFunctions(s, context, ip, dp, status) ==
    IF U_FAILURE(status) THEN s
    ELSE IF ip = NULL \/ dp = NULL
      THEN [s EXCEPT !.status = U_ILLEGAL_ARGUMENT_ERROR]
    ELSE IF cmemory_inUse(s)
      THEN [s EXCEPT !.status = U_INVALID_STATE_ERROR]
    ELSE
      LET s1 == [s EXCEPT !.pIncFn = ip, !.pDecFn = dp] IN
      IF s.debug THEN UserAtomic(UserAtomic(s1, "inc"), "dec") ELSE s1

\* umtx_cleanup
umtx_cleanup(s) ==
    [umtx_destroy(s, NullArg) EXCEPT
        !.pMutexInitFn = NULL, !.pMutexDestroyFn = NULL, !.pMutexLockFn = NULL,
        !.pMutexUnlockFn = NULL, !.gMutexContext = NULL,
        !.pIncFn = NULL, !.pDecFn = NULL]

\* ------------------------------------------------- calls, cut into steps
IdleFrame ==
    [pc |-> "idle", op |-> "none", mutex |-> NullArg, tMutex |-> NULL,
     isInitialized |-> FALSE, stillNull |-> FALSE, cont |-> "return",
     resume |-> "return", m |-> NULL, reg |-> 0, retVal |-> 0]

\* The return of the call thread t is in: its locals die.
Return(s, t, ret) ==
    [s EXCEPT !.frame[t] = IdleFrame, !.ret = ret]

Goto(s, t, pc) == [s EXCEPT !.frame[t].pc = pc]

\* umtx_init's return, lines 238 and 253: to umtx_lock's line 98 when
\* umtx_lock made the call, to the caller otherwise.
InitReturn(s, t) ==
    IF s.frame[t].cont = "lock" THEN Goto(s, t, "lock_acquire") ELSE Return(s, t, 0)

\* umtx_lock(NULL), lines 100-119: the acquisition of the lock object that
\* gGlobalMutex names now; the caller goes on at resume.
AcquireGlobal(s, t, resume) ==
    LET s1 == umtx_lock_acquire(s, t, GlobalSlot)
    IN  IF s1.aborted \/ s1.blocked THEN s1
        ELSE IF resume = "return" THEN Return(s1, t, 0)
        ELSE Goto(s1, t, resume)

\* umtx_lock(NULL), lines 87-98: a live global mutex is acquired; a null
\* one fails the assertion and, in a release build, is constructed first, in
\* a step of its own (the tests of lines 90 and 219 read null together).
LockGlobal(s, t, resume) ==
    IF s.gGlobalMutex = NULL
      THEN LET a == U_ASSERT(s, FALSE)
           IN  IF a.aborted THEN a
               ELSE Goto([a EXCEPT !.frame[t].resume = resume], t, "ginit_construct")
      ELSE AcquireGlobal(s, t, resume)

\* The test of line 244 left out: the temporary is always installed.
StillNull_unchecked(s, m) == TRUE

\* line 244: if (*mutex == NULL)
StillNull(s, m) == Deref(s, m) = NULL

\* retVal = (*p)++ in place of ++(*p): the value before the update.
Fetched_before(before, after) == before

\* The value of ++(*p), --(*p), InterlockedIncrement(p) and
\* InterlockedDecrement(p): the one stored.
Fetched(before, after) == after

\* One step of thread t's call, from its program counter.
Step(s, t) ==
    LET f == s.frame[t]
        pc == f.pc
    IN  CASE pc = "init_lock1" ->                               \* line 234
               LockGlobal(s, t, "init_read")
          [] pc = "ginit_construct" ->                          \* lines 220-225
               Goto(umtx_init_global_construct(s), t, "glock_acquire")
          [] pc = "glock_acquire" ->                            \* lines 100-119
               AcquireGlobal(s, t, f.resume)
          [] pc = "init_read" ->                                \* line 235
               Goto([s EXCEPT !.frame[t].isInitialized = (Deref(s, f.mutex) # NULL)],
                    t, "init_unlock1")
          [] pc = "init_unlock1" ->                             \* line 236
               Goto(umtx_unlock(s, t, NullArg), t, "init_construct")
          [] pc = "init_construct" ->                           \* lines 237-241
               IF f.isInitialized THEN InitReturn(s, t)
               ELSE Goto(umtx_raw_init(s, TempSlot(t)), t, "init_lock2")
          [] pc = "init_lock2" ->                               \* line 243
               LockGlobal(s, t, "init_test")
          [] pc = "init_test" ->                                \* line 244
               Goto([s EXCEPT !.frame[t].stillNull = StillNull(s, f.mutex)],
                    t, "init_install")
          [] pc = "init_install" ->                             \* lines 245-246
               IF f.stillNull
                 THEN Goto(Store(Store(s, f.mutex, f.tMutex), TempSlot(t), NULL),
                           t, "init_unlock2")
                 ELSE Goto(s, t, "init_unlock2")
          [] pc = "init_unlock2" ->                             \* line 248
               Goto(umtx_unlock(s, t, NullArg), t, "init_cleanup")
          [] pc = "init_cleanup" ->                             \* lines 250-253
               IF f.tMutex # NULL
                 THEN InitReturn(umtx_destroy(s, TempSlot(t)), t)
                 ELSE InitReturn(s, t)
          [] pc = "lock_acquire" ->                             \* lines 100-119
               LET s1 == umtx_lock_acquire(s, t, Norm(f.mutex))
               IN  IF s1.aborted \/ s1.blocked THEN s1 ELSE Return(s1, t, 0)
          [] pc = "atom_lock" ->                                \* lines 352-353, 373-374
               Goto(NativeLock([s EXCEPT !.frame[t].m = s.gIncDecMutex], t, s.gIncDecMutex),
                    t, "atom_load")
          [] pc = "atom_load" ->                                \* lines 354, 375: the read
               Goto([s EXCEPT !.frame[t].reg = s.counter], t, "atom_store")
          [] pc = "atom_store" ->                               \* lines 354, 375: the write
               LET v == IF f.op = "umtx_atomic_inc" THEN f.reg + 1 ELSE f.reg - 1
               IN  Goto([s EXCEPT !.counter = v, !.frame[t].retVal = Fetched(f.reg, v)],
                        t, "atom_unlock")
          [] pc = "atom_unlock" ->                              \* lines 355-361, 376-382
               Return(NativeUnlock(s, t, f.m), t, f.retVal)
          [] OTHER -> s

\* The rest of thread t's call, to its return (or to where it waits, or to
\* the abort).
RECURSIVE Run(_, _)
Run(s, t) ==
    IF s.aborted \/ s.blocked \/ s.frame[t].pc = "idle" THEN s ELSE Run(Step(s, t), t)

Enter(s, t, op, m0) ==
    [s EXCEPT !.calls = <<>>, !.status = U_ZERO_ERROR, !.ret = 0,
              !.frame[t] = [IdleFrame EXCEPT !.op = op, !.mutex = m0]]

\* umtx_init from its entry: the global mutex at once, another slot by steps.
Begin_umtx_init(s, t, m0) ==
    LET e == Enter(s, t, "umtx_init", m0) IN
    IF Norm(m0) = GlobalSlot
      THEN Return(umtx_init_global(e), t, 0)
      ELSE Goto(e, t, "init_lock1")

\* umtx_lock without the call of umtx_init at line 96.
Begin_umtx_lock_noLazyInit(s, t, m0) ==
    LET e == Enter(s, t, "umtx_lock", m0)
    IN  IF Deref(s, Norm(m0)) = NULL THEN
          LET a == U_ASSERT(e, FALSE) IN
          IF a.aborted THEN a ELSE Goto(a, t, "lock_acquire")
        ELSE Goto(e, t, "lock_acquire")

\* umtx_lock from its entry, lines 87-98
Begin_umtx_lock(s, t, m0) ==
    LET e == Enter(s, t, "umtx_lock", m0)
        m == Norm(m0)
    IN  IF Deref(s, m) = NULL THEN
          LET a == U_ASSERT(e, FALSE) IN
          IF a.aborted THEN a
          ELSE IF m = GlobalSlot THEN Goto(a, t, "ginit_construct")
          ELSE Goto([a EXCEPT !.frame[t].cont = "lock"], t, "init_lock1")
        ELSE Goto(e, t, "lock_acquire")

Begin_umtx_unlock(s, t, m0) ==
    LET s1 == umtx_unlock(Enter(s, t, "umtx_unlock", m0), t, m0)
    IN  IF s1.aborted THEN s1 ELSE Return(s1, t, 0)

Begin_umtx_destroy(s, t, m0) ==
    Return(umtx_destroy(Enter(s, t, "umtx_destroy", m0), m0), t, 0)

\* umtx_atomic_inc and umtx_atomic_dec from the entry: op names which
AtomicDelta(op) == IF op = "umtx_atomic_inc" THEN 1 ELSE -1
AtomicOps == {"umtx_atomic_inc", "umtx_atomic_dec"}
Begin_umtx_atomic(s, t, op) ==
    LET e == Enter(s, t, op, NullArg)
        fn == IF op = "umtx_atomic_inc" THEN s.pIncFn ELSE s.pDecFn
        v == s.counter + AtomicDelta(op)
    IN  IF fn # NULL
          THEN Return([UserAtomic(e, IF op = "umtx_atomic_inc" THEN "inc" ELSE "dec")
                         EXCEPT !.counter = v], t, v)
        ELSE IF s.platform = "posix" THEN Goto(e, t, "atom_lock")
        ELSE Return([e EXCEPT !.counter = v], t, Fetched(s.counter, v))

Begin_u_setMutexFunctions(s, t, context, i, d, l, u, status) ==
    LET e == [Enter(s, t, "u_setMutexFunctions", NullArg) EXCEPT !.status = status]
    IN  Return(u_setMutexFunctions(e, context, i, d, l, u, status), t, 0)

Begin_u_setAtomicIncDecFunctions(s, t, context, ip, dp, status) ==
    LET e == [Enter(s, t, "u_setAtomicIncDecFunctions", NullArg) EXCEPT !.status = status]
    IN  Return(u_setAtomicIncDecFunctions(e, context, ip, dp, status), t, 0)

Begin_umtx_cleanup(s, t) ==
    Return(umtx_cleanup(Enter(s, t, "umtx_cleanup", NullArg)), t, 0)

\* ------------------------------------------------------- specifications
\* The statics of umutex.c and cmemory.c as the loader leaves them.
Pristine(pf, dbg, size) ==
    [gGlobalMutex |-> NULL, gIncDecMutex |-> NULL, gRecursionCount |-> 0,
     pMutexInitFn |-> NULL, pMutexDestroyFn |-> NULL,
     pMutexLockFn |-> NULL, pMutexUnlockFn |-> NULL, gMutexContext |-> NULL,
     pIncFn |-> NULL, pDecFn |-> NULL, gIncDecContext |-> NULL,
     gHeapInUse |-> FALSE, platform |-> pf, debug |-> dbg,
     userMutex |-> [k \in UserHandles |-> NULL],
     objs |-> [i \in ObjIds |-> Dead],
     counter |-> 0, aborted |-> FALSE,
     frame |-> [t \in Threads |-> IdleFrame], heapSize |-> size,
     status |-> U_ZERO_ERROR, ret |-> 0, calls |-> <<>>, oracle |-> <<>>,
     starved |-> FALSE, blocked |-> FALSE]

\* The program starts in state s.
StartsAs(s) ==
    /\ gGlobalMutex = s.gGlobalMutex
    /\ gIncDecMutex = s.gIncDecMutex
    /\ gRecursionCount = s.gRecursionCount
    /\ pMutexInitFn = s.pMutexInitFn
    /\ pMutexDestroyFn = s.pMutexDestroyFn
    /\ pMutexLockFn = s.pMutexLockFn
    /\ pMutexUnlockFn = s.pMutexUnlockFn
    /\ gMutexContext = s.gMutexContext
    /\ pIncFn = s.pIncFn
    /\ pDecFn = s.pDecFn
    /\ gIncDecContext = s.gIncDecContext
    /\ gHeapInUse = s.gHeapInUse
    /\ platform = s.platform
    /\ debug = s.debug
    /\ userMutex = s.userMutex
    /\ objs = s.objs
    /\ counter = s.counter
    /\ aborted = s.aborted
    /\ frame = s.frame
    /\ heapSize = s.heapSize
    /\ ncalls = [t \in Threads |-> 0]
    /\ returns = <<>>
    /\ regContext = NULL
    /\ startedLive = (s.gGlobalMutex # NULL)

\* The thread that configures the library at startup and cleans it up.
MainThread == CHOOSE t \in Threads : \A u \in Threads : t <= u

With(s, o) == [s EXCEPT !.oracle = o]
AllIdle == \A t \in Threads : frame[t].pc = "idle"
Holder(s, m) == IF IsObj(Deref(s, m)) THEN s.objs[Deref(s, m)].holder ELSE 0

\* ------------------------------------------------------------------ Spec
\* The states between operations: one caller, whole calls of umtx_init,
\* umtx_destroy, umtx_cleanup and the two registration functions, with
\* constructions that may fail.
Init == \E pf \in Platforms, dbg \in BOOLEAN : StartsAs(Pristine(pf, dbg, MaxObj))

\* One of the results R of a whole call: from the entry through every step
\* to the return.  A call that waits for ever does not return.
Whole(R) ==
    \E r \in R :
        /\ ~r.blocked
        /\ Set(r)
        /\ UNCHANGED <<ncalls, returns, regContext, startedLive>>

Call_umtx_init(t, m) ==
    /\ ~aborted /\ AllIdle
    /\ Whole(Outcomes(LAMBDA o : Run(Begin_umtx_init(With(S, o), t, m), t)))

\* The caller's side of the contract: nobody holds or uses what is destroyed.
Call_umtx_destroy(t, m) ==
    /\ ~aborted /\ AllIdle
    /\ Holder(S, Norm(m)) = 0
    /\ Whole({Begin_umtx_destroy(S, t, m)})

MutexFnArgs == Contexts \X [1..4 -> FnPtrs] \X StatusCodes
AtomicFnArgs == Contexts \X [1..2 -> FnPtrs] \X StatusCodes

Call_u_setMutexFunctions(t) ==
    /\ ~aborted /\ AllIdle
    /\ Whole({Begin_u_setMutexFunctions(S, t, a[1], a[2][1], a[2][2], a[2][3], a[2][4], a[3]) :
                 a \in MutexFnArgs})

Call_u_setAtomicIncDecFunctions(t) ==
    /\ ~aborted /\ AllIdle
    /\ Whole({Begin_u_setAtomicIncDecFunctions(S, t, a[1], a[2][1], a[2][2], a[3]) :
                 a \in AtomicFnArgs})

\* umtx_cleanup runs at shutdown, with no lock of the layer held.
Call_umtx_cleanup(t) ==
    /\ ~aborted /\ AllIdle
    /\ Holder(S, GlobalSlot) = 0
    /\ Whole({Begin_umtx_cleanup(S, t)})

Next ==
    \/ \E m \in ApiSlots : Call_umtx_init(MainThread, m)
    \/ \E m \in ApiSlots : Call_umtx_destroy(MainThread, m)
    \/ Call_u_setMutexFunctions(MainThread)
    \/ Call_u_setAtomicIncDecFunctions(MainThread)
    \/ Call_umtx_cleanup(MainThread)

Spec == Init /\ [][Next]_vars

\* ------------------------------------------------------------ SpecCount
\* One caller: umtx_atomic_inc and umtx_atomic_dec on one counter, between
\* registrations of atomic callbacks, umtx_init(NULL) and umtx_cleanup; the
\* values returned are logged.
MaxOps == 3

Call_umtx_atomic(t, op) ==
    /\ ~aborted /\ AllIdle
    /\ Len(returns) < MaxOps
    /\ counter + AtomicDelta(op) \in -MaxCount..MaxCount
    /\ \E r \in {Run(Begin_umtx_atomic(S, t, op), t)} :
          /\ ~r.blocked
          /\ Set(r)
          /\ returns' = Append(returns, <<op, r.ret>>)
    /\ UNCHANGED <<ncalls, regContext, startedLive>>

Call_umtx_atomic_inc(t) == Call_umtx_atomic(t, "umtx_atomic_inc")
Call_umtx_atomic_dec(t) == Call_umtx_atomic(t, "umtx_atomic_dec")

\* u_setAtomicIncDecFunctions, remembering the context of a call that
\* installed its callbacks.
Register_atomic(t) ==
    /\ ~aborted /\ AllIdle
    /\ \E a \in AtomicFnArgs :
         \E r \in {Begin_u_setAtomicIncDecFunctions(S, t, a[1], a[2][1], a[2][2], a[3])} :
            /\ Set(r)
            /\ regContext' = IF ~U_FAILURE(r.status) THEN a[1] ELSE regContext
    /\ UNCHANGED <<ncalls, returns, startedLive>>

Cleanup_atomic(t) ==
    /\ ~aborted /\ AllIdle
    /\ Set(Begin_umtx_cleanup(S, t))
    /\ regContext' = NULL
    /\ UNCHANGED <<ncalls, returns, startedLive>>

NextCount ==
    \/ Call_umtx_atomic_inc(MainThread)
    \/ Call_umtx_atomic_dec(MainThread)
    \/ Register_atomic(MainThread)
    \/ Call_umtx_init(MainThread, NullArg)
    \/ Cleanup_atomic(MainThread)

SpecCount == Init /\ [][NextCount]_vars

\* ------------------------------------------------------- started states
\* The state in which the threads start: the library as the loader left
\* it, a mutex backend registered or not, and umtx_init(NULL) called or not
\* by the one thread there was.
Started(pf, dbg, backend, init, size) ==
    LET p == Pristine(pf, dbg, size)
        r == IF backend
               THEN Begin_u_setMutexFunctions(p, MainThread, MaxCtx, UserFn, UserFn, UserFn,
                                              UserFn, U_ZERO_ERROR)
               ELSE p
    IN  IF init
          THEN Run(Begin_umtx_init(With(r, <<TRUE, TRUE>>), MainThread, NullArg), MainThread)
          ELSE r

ThreadedPlatforms == {pf \in Platforms : pf # "posix_nothreads"}

\* ----------------------------------------------------------- SpecAtomic
\* POSIX, no backend, the global mutex and the guard live: every thread
\* makes MaxCalls calls of umtx_atomic_inc, statement by statement.
InitAtomic == \E dbg \in BOOLEAN : StartsAs(Started("posix", dbg, FALSE, TRUE, MaxObj))

Start_umtx_atomic_inc(t) ==
    /\ ~aborted /\ frame[t].pc = "idle"
    /\ ncalls[t] < MaxCalls
    /\ Set(Begin_umtx_atomic(S, t, "umtx_atomic_inc"))
    /\ ncalls' = [ncalls EXCEPT ![t] = @ + 1]
    /\ returns' = IF Begin_umtx_atomic(S, t, "umtx_atomic_inc").frame[t].pc = "idle"
                    THEN Append(returns, <<"umtx_atomic_inc",
                                           Begin_umtx_atomic(S, t, "umtx_atomic_inc").ret>>)
                    ELSE returns
    /\ UNCHANGED <<regContext, startedLive>>

Step_atomic(t) ==
    /\ ~aborted /\ frame[t].pc # "idle"
    /\ \E r \in {Step(S, t)} :
          /\ ~r.blocked
          /\ Set(r)
          /\ returns' = IF r.frame[t].pc = "idle"
                          THEN Append(returns, <<frame[t].op, r.ret>>)
                          ELSE returns
    /\ UNCHANGED <<ncalls, regContext, startedLive>>

NextAtomic == \E t \in Threads : Start_umtx_atomic_inc(t) \/ Step_atomic(t)

SpecAtomic == InitAtomic /\ [][NextAtomic]_vars

\* ------------------------------------------------------------- SpecInit
\* A threaded build, the global mutex live, constructions that succeed:
\* every thread calls umtx_init once on the same fresh handle, statement by
\* statement; a thread that waits for the global mutex gets it in the end.
FreshHandle == UserSlot(CHOOSE k \in UserHandles : \A j \in UserHandles : k <= j)

InitInit ==
    \E pf \in ThreadedPlatforms, dbg \in BOOLEAN, backend \in BOOLEAN :
        StartsAs(Started(pf, dbg, backend, TRUE, NThreads + NHandles + 1))

Start_umtx_init(t) ==
    /\ ~aborted /\ frame[t].pc = "idle"
    /\ ncalls[t] = 0
    /\ Set(Begin_umtx_init(S, t, FreshHandle))
    /\ ncalls' = [ncalls EXCEPT ![t] = 1]
    /\ UNCHANGED <<returns, regContext, startedLive>>

Step_init(t) ==
    /\ ~aborted /\ frame[t].pc # "idle"
    /\ \E r \in {Step(With(S, <<TRUE>>), t)} :
          /\ ~r.blocked
          /\ Set(r)
    /\ UNCHANGED <<ncalls, returns, regContext, startedLive>>

Thread_init(t) == Start_umtx_init(t) \/ Step_init(t)

NextInit == \E t \in Threads : Thread_init(t)

SpecInit == InitInit /\ [][NextInit]_vars /\ \A t \in Threads : SF_vars(Thread_init(t))

\* ------------------------------------------------------------- SpecRace
\* A threaded build; the threads start with the global mutex live or not
\* and call umtx_init and umtx_lock on the caller-owned handles and on the
\* global mutex (MaxStarts calls each), statement by statement, and
\* umtx_unlock on what they hold; constructions may fail.  No thread locks
\* again what it holds: the holder of the global mutex calls neither
\* umtx_init on another handle nor umtx_lock on a null one, which lock it.
MaxStarts == 1

InitRace ==
    \E pf \in ThreadedPlatforms, dbg \in BOOLEAN, backend \in BOOLEAN, init \in BOOLEAN :
        StartsAs(Started(pf, dbg, backend, init, MaxObj + NThreads))

Race_umtx_init(t, m) ==
    /\ ~aborted /\ frame[t].pc = "idle"
    /\ ncalls[t] < MaxStarts
    /\ Holder(S, GlobalSlot) # t
    /\ Set(Begin_umtx_init(S, t, m))
    /\ ncalls' = [ncalls EXCEPT ![t] = @ + 1]
    /\ UNCHANGED <<returns, regContext, startedLive>>

Race_umtx_lock(t, m) ==
    /\ ~aborted /\ frame[t].pc = "idle"
    /\ ncalls[t] < MaxStarts
    /\ Holder(S, Norm(m)) # t
    /\ Deref(S, Norm(m)) = NULL => Holder(S, GlobalSlot) # t
    /\ Set(Begin_umtx_lock(S, t, m))
    /\ ncalls' = [ncalls EXCEPT ![t] = @ + 1]
    /\ UNCHANGED <<returns, regContext, startedLive>>

Race_umtx_unlock(t, m) ==
    /\ ~aborted /\ frame[t].pc = "idle"
    /\ Holder(S, Norm(m)) = t
    /\ Set(Begin_umtx_unlock(S, t, m))
    /\ UNCHANGED <<ncalls, returns, regContext, startedLive>>

Race_step(t) ==
    /\ ~aborted /\ frame[t].pc # "idle"
    /\ \E r \in Outcomes(LAMBDA o : Step(With(S, o), t)) :
          /\ ~r.blocked
          /\ Set(r)
    /\ UNCHANGED <<ncalls, returns, regContext, startedLive>>

NextRace ==
    \E t \in Threads :
       \/ \E k \in UserHandles : Race_umtx_init(t, UserSlot(k))
       \/ \E m \in ApiSlots : Race_umtx_lock(t, m)
       \/ \E m \in ApiSlots : Race_umtx_unlock(t, m)
       \/ Race_step(t)

SpecRace == InitRace /\ [][NextRace]_vars

\* ------------------------------------------------- what the claims read
CallbackSlots(s) ==
    <<s.pMutexInitFn, s.pMutexDestroyFn, s.pMutexLockFn, s.pMutexUnlockFn,
      s.gMutexContext, s.pIncFn, s.pDecFn, s.gIncDecContext>>
Handles(s) == <<s.gGlobalMutex, s.gIncDecMutex, s.userMutex>>
\* Everything a call can change but its own results.
Memory(s) ==
    <<CallbackSlots(s), Handles(s), s.objs, s.gRecursionCount, s.gHeapInUse,
      s.counter, s.aborted, s.frame>>
AllFns == [i \in 1..4 |-> UserFn]
BothFns == [i \in 1..2 |-> UserFn]
ClearStatus == {st \in StatusCodes : ~U_FAILURE(st)}
HasNull(f) == \E i \in DOMAIN f : f[i] = NULL
SetMutexFns(s, a) ==
    Begin_u_setMutexFunctions(s, MainThread, a[1], a[2][1], a[2][2], a[2][3], a[2][4], a[3])
SetAtomicFns(s, a) ==
    Begin_u_setAtomicIncDecFunctions(s, MainThread, a[1], a[2][1], a[2][2], a[3])
SomeHandleLive(s) ==
    s.gGlobalMutex # NULL \/ \E k \in UserHandles : s.userMutex[k] # NULL
DestroyCalls(s, v) ==
    {i \in 1..Len(s.calls) : s.calls[i].fn = "destroy" /\ s.calls[i].obj = v}

\* ----------------------------------------------------------------- C5
\* C5: once umtx_init has made a handle live, a registration call with all
\* callbacks non-null (and a clear incoming status) sets the status to
\* U_INVALID_STATE_ERROR and leaves every callback slot and context as it
\* was.
C5_RegisterAfterInitIsInvalidState ==
    SomeHandleLive(S) /\ ~aborted =>
       /\ \A a \in MutexFnArgs :
            a[2] = AllFns /\ a[3] \in ClearStatus =>
               /\ SetMutexFns(S, a).status = U_INVALID_STATE_ERROR
               /\ CallbackSlots(SetMutexFns(S, a)) = CallbackSlots(S)
       /\ \A a \in AtomicFnArgs :
            a[2] = BothFns /\ a[3] \in ClearStatus =>
               /\ SetAtomicFns(S, a).status = U_INVALID_STATE_ERROR
               /\ CallbackSlots(SetAtomicFns(S, a)) = CallbackSlots(S)

\* ----------------------------------------------------------------- C6
\* C6 as stated: a registration call with a null callback sets the status
\* to U_ILLEGAL_ARGUMENT_ERROR, whatever the incoming status, and changes
\* no callback slot, context or handle.
C6_NullCallbackAlwaysIllegalArgument ==
    /\ \A a \in MutexFnArgs :
         ~aborted /\ HasNull(a[2]) =>
            /\ SetMutexFns(S, a).status = U_ILLEGAL_ARGUMENT_ERROR
            /\ Memory(SetMutexFns(S, a)) = Memory(S)
    /\ \A a \in AtomicFnArgs :
         ~aborted /\ HasNull(a[2]) =>
            /\ SetAtomicFns(S, a).status = U_ILLEGAL_ARGUMENT_ERROR
            /\ Memory(SetAtomicFns(S, a)) = Memory(S)

\* C6, amended: a registration call with a null callback changes no
\* callback slot, context, handle or lock object and invokes no callback;
\* it sets the status to U_ILLEGAL_ARGUMENT_ERROR when the incoming status
\* is not a failure, and leaves a failing incoming status as it came.
C6_NullCallbackRejected ==
    /\ \A a \in MutexFnArgs :
         ~aborted /\ HasNull(a[2]) =>
            /\ SetMutexFns(S, a).status =
                 IF U_FAILURE(a[3]) THEN a[3] ELSE U_ILLEGAL_ARGUMENT_ERROR
            /\ Memory(SetMutexFns(S, a)) = Memory(S)
            /\ SetMutexFns(S, a).calls = <<>>
    /\ \A a \in AtomicFnArgs :
         ~aborted /\ HasNull(a[2]) =>
            /\ SetAtomicFns(S, a).status =
                 IF U_FAILURE(a[3]) THEN a[3] ELSE U_ILLEGAL_ARGUMENT_ERROR
            /\ Memory(SetAtomicFns(S, a)) = Memory(S)
            /\ SetAtomicFns(S, a).calls = <<>>

\* A state with both backends registered, under a non-null context, and a
\* live handle, in which a call with one null callback is rejected.
C6_Witness ==
    /\ pMutexInitFn # NULL /\ gMutexContext # NULL /\ pIncFn # NULL
    /\ gGlobalMutex # NULL
    /\ \E a \in MutexFnArgs :
         /\ HasNull(a[2]) /\ a[2][1] # NULL /\ a[1] # gMutexContext
         /\ a[3] = U_ZERO_ERROR
         /\ SetMutexFns(S, a).status = U_ILLEGAL_ARGUMENT_ERROR
         /\ SetMutexFns(S, a).gMutexContext = gMutexContext

\* ----------------------------------------------------------------- C8
\* C8: on POSIX, between operations, gIncDecMutex is live exactly when
\* gGlobalMutex is live.
C8_GuardInLockstep ==
    IsPOSIX(S) => ((gIncDecMutex # NULL) <=> (gGlobalMutex # NULL))

\* ----------------------------------------------------------------- C9
\* C9: umtx_cleanup leaves gGlobalMutex, gIncDecMutex, the four mutex
\* callbacks, the mutex context and both atomic callbacks null; a following
\* umtx_init(NULL) whose constructions succeed makes the global mutex (and on
\* POSIX the guard) live through the built-in primitive with the recursion
\* counter at 0, and umtx_lock(NULL) then umtx_unlock(NULL) return and
\* leave it live and not held.
AfterCleanup == Begin_umtx_cleanup(S, MainThread)
ThenInit == Run(Begin_umtx_init(With(AfterCleanup, <<TRUE, TRUE>>), MainThread, NullArg), MainThread)
ThenLock == Run(Begin_umtx_lock(ThenInit, MainThread, NullArg), MainThread)
ThenUnlock == Begin_umtx_unlock(ThenLock, MainThread, NullArg)
BuiltIn(s, v) ==
    IF Threaded(s) THEN LiveObj(s, v, "native") ELSE v # NULL /\ ~IsObj(v)
C9_CleanupThenInit ==
    ~aborted /\ Holder(S, GlobalSlot) = 0 =>
       /\ AfterCleanup.gGlobalMutex = NULL /\ AfterCleanup.gIncDecMutex = NULL
       /\ AfterCleanup.pMutexInitFn = NULL /\ AfterCleanup.pMutexDestroyFn = NULL
       /\ AfterCleanup.pMutexLockFn = NULL /\ AfterCleanup.pMutexUnlockFn = NULL
       /\ AfterCleanup.gMutexContext = NULL
       /\ AfterCleanup.pIncFn = NULL /\ AfterCleanup.pDecFn = NULL
       /\ (FreeIds(AfterCleanup) # {} /\ (IsPOSIX(S) => Cardinality(FreeIds(AfterCleanup)) > 1) =>
             /\ BuiltIn(ThenInit, ThenInit.gGlobalMutex)
             /\ IsPOSIX(S) => BuiltIn(ThenInit, ThenInit.gIncDecMutex)
             /\ ThenInit.gRecursionCount = 0
             /\ ~ThenLock.blocked /\ ~ThenLock.aborted /\ ~ThenUnlock.aborted
             /\ ThenLock.frame[MainThread].pc = "idle"
             /\ Threaded(S) => Holder(ThenLock, GlobalSlot) = MainThread
             /\ ThenUnlock.gGlobalMutex = ThenInit.gGlobalMutex
             /\ BuiltIn(ThenUnlock, ThenUnlock.gGlobalMutex)
             /\ Holder(ThenUnlock, GlobalSlot) = 0
             /\ \A i \in 1..Len(ThenLock.calls) : ThenLock.calls[i].ok
             /\ \A i \in 1..Len(ThenUnlock.calls) : ThenUnlock.calls[i].ok)

\* ---------------------------------------------------------------- C10
\* C10: after umtx_destroy(h) the handle is null and the release of the
\* build (the destroy callback if one is registered, else the native
\* release of a threaded build; a build with neither has none to invoke) was
\* invoked exactly once on what the handle held; a second umtx_destroy(h)
\* invokes no callback and no native release and changes no handle,
\* callback slot, lock object or counter.
HasRelease(s) == s.pMutexDestroyFn # NULL \/ Threaded(s)
Destroy1(m) == Begin_umtx_destroy(S, MainThread, m)
Destroy2(m) == Begin_umtx_destroy(Destroy1(m), MainThread, m)
C10_DestroyIdempotent ==
    \A m \in ApiSlots :
       ~aborted /\ Holder(S, Norm(m)) = 0 =>
          /\ Deref(Destroy1(m), Norm(m)) = NULL
          /\ Deref(S, Norm(m)) # NULL =>
               Cardinality(DestroyCalls(Destroy1(m), Deref(S, Norm(m)))) =
                  IF HasRelease(S) THEN 1 ELSE 0
          /\ LiveObj(S, Deref(S, Norm(m)), IF pMutexDestroyFn # NULL THEN "user" ELSE "native") =>
               ~Destroy1(m).objs[Deref(S, Norm(m))].alive
          /\ IsPOSIX(S) /\ m = NullArg /\ gGlobalMutex # NULL => Destroy1(m).gIncDecMutex = NULL
          /\ Destroy2(m).calls = <<>>
          /\ Memory(Destroy2(m)) = Memory(Destroy1(m))

\* A live caller-owned handle and a live global mutex with its guard, each
\* holding a lock object: the first umtx_destroy releases, the second does
\* nothing.
C10_Witness ==
    /\ IsObj(gGlobalMutex) /\ IsObj(gIncDecMutex)
    /\ \E k \in UserHandles :
         /\ IsObj(userMutex[k])
         /\ Len(Destroy1(UserSlot(k)).calls) = 1
         /\ ~Destroy1(UserSlot(k)).objs[userMutex[k]].alive
         /\ Destroy2(UserSlot(k)).calls = <<>>
    /\ Len(Destroy1(NullArg).calls) = 2

\* ----------------------------------------------------------------- C1
\* C1: with the global mutex live and constructions that succeed, every
\* one of the NThreads calls of umtx_init on the same fresh handle returns
\* (under fair scheduling); once all have returned the handle holds a live
\* lock object and that object is the only one constructed and not
\* destroyed; a thread with a temporary left destroys that temporary, once,
\* and never the object in the handle.
InitDone == \A t \in Threads : ncalls[t] = 1 /\ frame[t].pc = "idle"
LiveIds(s) == {i \in ObjIds : s.objs[i].alive}
AtStartup(s) == {s.gGlobalMutex} \cup (IF IsPOSIX(s) THEN {s.gIncDecMutex} ELSE {})
AllOk(s) == \A i \in 1..Len(s.calls) : s.calls[i].ok
C1_Safety ==
    /\ ~aborted
    /\ InitDone =>
         /\ IsObj(Deref(S, FreshHandle)) /\ objs[Deref(S, FreshHandle)].alive
         /\ LiveIds(S) = AtStartup(S) \cup {Deref(S, FreshHandle)}
         /\ Cardinality(LiveIds(S)) = Cardinality(AtStartup(S)) + 1
    /\ \A t \in Threads :
         frame[t].pc = "init_cleanup" /\ frame[t].tMutex # NULL =>
            /\ frame[t].tMutex # Deref(S, FreshHandle)
            /\ objs[frame[t].tMutex].alive
            /\ Len(Step(S, t).calls) = 1 /\ AllOk(Step(S, t))
            /\ Step(S, t).calls[1].fn = "destroy"
            /\ Step(S, t).calls[1].obj = frame[t].tMutex
            /\ Deref(Step(S, t), FreshHandle) = Deref(S, FreshHandle)
C1_AllReturnOneSurvives == []C1_Safety /\ <>InitDone

\* All calls have returned, and the object in the handle is one that was
\* constructed while another thread's temporary was alive: a thread lost
\* the race and destroyed its temporary.
C1_Witness ==
    /\ InitDone
    /\ IsObj(Deref(S, FreshHandle))
    /\ Deref(S, FreshHandle) > Cardinality(AtStartup(S)) + 1
    /\ Cardinality(LiveIds(S)) = Cardinality(AtStartup(S)) + 1

\* ----------------------------------------------------------------- C2
\* C2 as stated: in every interleaving of umtx_init, umtx_lock and
\* umtx_unlock calls, from whatever state the threads start in, a non-null
\* caller-owned handle keeps the object it holds, and the object stays
\* alive.
HandleKept ==
    \A k \in UserHandles :
       userMutex[k] # NULL =>
          /\ userMutex'[k] = userMutex[k]
          /\ IsObj(userMutex[k]) /\ objs[userMutex[k]].alive => objs'[userMutex[k]].alive
C2_HandleNeverOverwritten == [][HandleKept]_vars

\* C2, amended: the same, given that the global mutex was live when the
\* threads started.
C2_HandleKeptGivenLiveGlobal == [][startedLive => HandleKept]_vars

\* The global mutex was live at the start, the handle holds the winner's
\* object, and a thread that lost the race is about to destroy its own
\* temporary.
C2_Witness ==
    /\ startedLive
    /\ \E k \in UserHandles, t \in Threads :
         /\ IsObj(userMutex[k]) /\ objs[userMutex[k]].alive
         /\ frame[t].mutex = UserSlot(k)
         /\ frame[t].pc = "init_cleanup"
         /\ frame[t].tMutex # NULL /\ frame[t].tMutex # userMutex[k]

\* ----------------------------------------------------------------- C3
\* C3: on every built-in path (InterlockedIncrement/Decrement on WIN32, the
\* guard mutex on POSIX, the plain update without threads) umtx_atomic_inc
\* returns v+1 and leaves v+1 in the counter, umtx_atomic_dec returns v-1
\* and leaves v-1, for every v the counter holds; from 0 the calls inc, inc,
\* dec return 1, 2, 1.
AtomicCall(op) == Run(Begin_umtx_atomic(S, MainThread, op), MainThread)
AtomicFn(s, op) == IF op = "umtx_atomic_inc" THEN s.pIncFn ELSE s.pDecFn
C3_PostUpdateValue ==
    /\ \A op \in AtomicOps :
         ~aborted /\ AtomicFn(S, op) = NULL /\ AllOk(AtomicCall(op)) =>
            /\ AtomicCall(op).frame[MainThread].pc = "idle"
            /\ AtomicCall(op).ret = counter + AtomicDelta(op)
            /\ AtomicCall(op).counter = counter + AtomicDelta(op)
    /\ Len(returns) >= 3
         /\ returns[1][1] = "umtx_atomic_inc" /\ returns[2][1] = "umtx_atomic_inc"
         /\ returns[3][1] = "umtx_atomic_dec"
       => /\ returns[1][2] = 1 /\ returns[2][2] = 2 /\ returns[3][2] = 1
          /\ Len(returns) = 3 => counter = 1

\* inc, inc, dec have returned 1, 2, 1 on the POSIX guard-mutex path.
C3_Witness ==
    /\ returns = << <<"umtx_atomic_inc", 1>>, <<"umtx_atomic_inc", 2>>, <<"umtx_atomic_dec", 1>> >>
    /\ platform = "posix" /\ pIncFn = NULL /\ pDecFn = NULL
    /\ LiveObj(S, gIncDecMutex, "native")
    /\ counter = 1

\* ----------------------------------------------------------------- C4
\* C4: on the POSIX guard-mutex path, once each of the NThreads threads has
\* made its MaxCalls calls of umtx_atomic_inc and all have returned, the
\* counter is NThreads * MaxCalls and the values returned are exactly
\* 1..NThreads * MaxCalls, each once.
AtomicDone == \A t \in Threads : ncalls[t] = MaxCalls /\ frame[t].pc = "idle"
C4_NoLostUpdate ==
    /\ ~aborted
    /\ AtomicDone =>
         /\ counter = NThreads * MaxCalls
         /\ Len(returns) = NThreads * MaxCalls
         /\ {returns[i][2] : i \in 1..Len(returns)} = 1..(NThreads * MaxCalls)

\* All calls have returned; the counter is at NThreads * MaxCalls.
C4_Witness ==
    /\ AtomicDone
    /\ counter = NThreads * MaxCalls
    /\ Len(returns) = NThreads * MaxCalls

\* ----------------------------------------------------------------- C7
\* C7: while atomic callbacks registered by u_setAtomicIncDecFunctions(
\* context, inc, dec) are installed, umtx_atomic_inc and umtx_atomic_dec
\* make one call, of inc or dec, and pass it that context.
C7_RegisteredContextPassed ==
    \A op \in AtomicOps :
       ~aborted /\ AtomicFn(S, op) # NULL =>
          /\ Len(AtomicCall(op).calls) = 1
          /\ AtomicCall(op).calls[1].impl = "user"
          /\ AtomicCall(op).calls[1].ctx = regContext

\* ---------------------------------------------------------------- C11
\* C11: between operations the four mutex callback slots are all null or
\* all non-null, and the two atomic callback slots are both null or both
\* non-null.
MutexSlots(s) == {s.pMutexInitFn, s.pMutexDestroyFn, s.pMutexLockFn, s.pMutexUnlockFn}
AtomicSlots(s) == {s.pIncFn, s.pDecFn}
C11_SlotsAllOrNone ==
    /\ MutexSlots(S) = {NULL} \/ NULL \notin MutexSlots(S)
    /\ AtomicSlots(S) = {NULL} \/ NULL \notin AtomicSlots(S)

\* The mutex callbacks are registered and the atomic ones are not, and a
\* call that offers three callbacks and a null one, under another context,
\* is refused and leaves the four registered.
C11_Witness ==
    /\ NULL \notin MutexSlots(S) /\ AtomicSlots(S) = {NULL}
    /\ \E a \in MutexFnArgs :
         /\ HasNull(a[2]) /\ a[2][1] # NULL /\ a[1] # gMutexContext /\ a[3] = U_ZERO_ERROR
         /\ NULL \notin MutexSlots(SetMutexFns(S, a))
         /\ SetMutexFns(S, a).status = U_ILLEGAL_ARGUMENT_ERROR

\* ---------------------------------------------------------------- C12
\* umtx_lock(m) by thread t to its return, then umtx_unlock(m) by t.
Locked(t, m) == Run(Begin_umtx_lock(S, t, m), t)
Unlocked(t, m) == Begin_umtx_unlock(Locked(t, m), t, m)
Returned(s, t) == ~s.aborted /\ ~s.blocked /\ s.frame[t].pc = "idle" /\ AllOk(s)
LockUnlockPair(t, m) ==
    /\ Returned(Locked(t, m), t) /\ Returned(Unlocked(t, m), t)
    /\ Threaded(S) => Holder(Locked(t, m), Norm(m)) = t
    /\ Holder(Unlocked(t, m), Norm(m)) = 0
    /\ Handles(Unlocked(t, m)) = Handles(S)
    /\ IsObj(Deref(S, Norm(m))) => Unlocked(t, m).objs[Deref(S, Norm(m))].alive
    /\ CallbackSlots(Unlocked(t, m)) = CallbackSlots(S)

\* C12: for every handle (global or not) that umtx_init made live and that
\* no thread holds, umtx_lock then umtx_unlock by one thread both return,
\* leave the handle with the same live object and the lock unheld, and
\* change no other handle and no callback slot.
C12_LockUnlockPair ==
    \A t \in Threads, m \in ApiSlots :
       ~aborted /\ AllIdle /\ Deref(S, Norm(m)) # NULL /\ Holder(S, Norm(m)) = 0 =>
          LockUnlockPair(t, m)

\* ---------------------------------------------------------------- C13
\* The lock objects thread t holds.
HeldBy(s, t) == {id \in ObjIds : s.objs[id].alive /\ s.objs[id].holder = t}
\* Thread t is in umtx_init on a non-global handle, outside the two
\* sections between umtx_lock(NULL) and umtx_unlock(NULL): before line 234,
\* at lines 237-241 (the construction of the temporary), at line 243 before
\* the lock is granted, or at lines 250-253 (the destruction of the
\* temporary and the return).
InInitOutside(s, t) ==
    s.frame[t].pc \in {"init_lock1", "init_construct", "init_lock2", "init_cleanup"}
\* Thread t is between the lock and the unlock of lines 234-236 or 243-248.
InInitInside(s, t) ==
    s.frame[t].pc \in {"init_read", "init_unlock1", "init_test", "init_install", "init_unlock2"}
\* umtx_init returns in this step, to its caller or to umtx_lock's line 98.
InitReturns(t) ==
    /\ frame[t].pc \in {"init_construct", "init_cleanup"}
    /\ frame'[t].pc \in {"idle", "lock_acquire"}

CountsRecursion(s) == IsWIN32(s) /\ s.debug
\* The holder of the global mutex calls umtx_lock(NULL) again.
Reentered(t) == Run(Begin_umtx_lock(S, t, NullArg), t)
RecursionCountTracksHolder(s) ==
    /\ s.gRecursionCount \in {0, 1}
    /\ s.gRecursionCount = 1 <=> Holder(s, GlobalSlot) # 0
\* Thread t's umtx_lock(NULL) returns in this step, or its umtx_unlock(NULL)
\* runs: t is the holder of the global mutex after the one, before the other.
LocksGlobal(t) == Holder(S, GlobalSlot) = 0 /\ Holder(S, GlobalSlot)' = t
UnlocksGlobal(t) == Holder(S, GlobalSlot) = t /\ Holder(S, GlobalSlot)' = 0

\* C14: in a debug build that keeps the recursion count, with umtx_lock(NULL)
\* and umtx_unlock(NULL) in nested pairs that are not re-entrant (those of
\* umtx_init on other handles included), gRecursionCount is 0 or 1, is 1
\* exactly while a thread is between its return from umtx_lock(NULL) and its
\* matching umtx_unlock(NULL), and is changed only by a step of the thread
\* that holds the global mutex; a re-entrant umtx_lock(NULL) by the holder,
\* let in by the lock, makes it 2 and fails the assertion.
C14_RecursionCount ==
    [][CountsRecursion(S) /\ ~aborted' =>
         /\ RecursionCountTracksHolder(S) /\ RecursionCountTracksHolder(S)'
         /\ gRecursionCount' # gRecursionCount =>
              \E t \in Threads :
                 \/ LocksGlobal(t) /\ gRecursionCount' = gRecursionCount + 1
                 \/ UnlocksGlobal(t) /\ gRecursionCount' = gRecursionCount - 1
         /\ \A t \in Threads :
              frame[t].pc = "idle" /\ Holder(S, GlobalSlot) = t /\ ~Reentered(t).blocked =>
                 Reentered(t).gRecursionCount = 2 /\ Reentered(t).aborted]_vars

\* A thread holds the global mutex after umtx_lock(NULL), the count is 1, the
\* other thread is inside umtx_init on another handle, and the holder's
\* second umtx_lock(NULL) is let in and fails the assertion with a count of 2.
C14_Witness ==
    /\ CountsRecursion(S) /\ startedLive /\ ~aborted /\ gRecursionCount = 1
    /\ \E t \in Threads, u \in Threads :
         /\ frame[t].pc = "idle" /\ Holder(S, GlobalSlot) = t
         /\ Reentered(t).gRecursionCount = 2 /\ Reentered(t).aborted
         /\ frame[u].pc = "init_lock2" /\ IsObj(frame[u].tMutex)

\* ---------------------------------------------------------------- C15
\* umtx_init(m) by thread t, once and once more, for m the null argument or
\* the global slot; a construction, were one attempted, would succeed.
InitGlobalOnce(t, m) == Run(Begin_umtx_init(With(S, <<TRUE, TRUE>>), t, m), t)
InitGlobalTwice(t, m) == Run(Begin_umtx_init(With(InitGlobalOnce(t, m), <<TRUE, TRUE>>), t, m), t)
\* What C15 names: the two handles, the count, and who holds the global mutex.
GlobalState(s) ==
    <<s.gGlobalMutex, s.gIncDecMutex, s.gRecursionCount, Holder(s, GlobalSlot), s.objs>>

\* C15: with the global mutex live, umtx_init(NULL) (or umtx_init on the
\* global slot) constructs nothing and leaves gGlobalMutex, gIncDecMutex,
\* gRecursionCount and the holder of the global mutex as they were, also
\* while another thread holds the global mutex; twice is as once.
C15_InitLiveGlobalIsNoOp ==
    \A t \in Threads, m \in {NullArg, GlobalSlot} :
       ~aborted /\ frame[t].pc = "idle" /\ gGlobalMutex # NULL =>
          /\ InitGlobalOnce(t, m).calls = <<>>
          /\ ~InitGlobalOnce(t, m).aborted /\ InitGlobalOnce(t, m).frame[t].pc = "idle"
          /\ GlobalState(InitGlobalOnce(t, m)) = GlobalState(S)
          /\ Memory(InitGlobalOnce(t, m)) = Memory(S)
          /\ Memory(InitGlobalTwice(t, m)) = Memory(InitGlobalOnce(t, m))
          /\ InitGlobalTwice(t, m).calls = <<>>

\* The other thread holds the live global mutex, with a recursion count of
\* 1, when a thread calls umtx_init(NULL).
C15_Witness ==
    \E t \in Threads, u \in Threads :
       /\ ~aborted /\ frame[t].pc = "idle" /\ IsObj(gGlobalMutex)
       /\ u # t /\ Holder(S, GlobalSlot) = u /\ gRecursionCount = 1
       /\ InitGlobalOnce(t, NullArg).calls = <<>>
       /\ InitGlobalOnce(t, NullArg).gRecursionCount = 1

\* ---------------------------------------------------------------- C16
\* umtx_init(m) by thread t in which the construction fails (uprv_malloc
\* returns NULL, or the init callback reports a failure), and the next
\* umtx_init(m) by t, in which it succeeds.
InitFailed(t, m) == Run(Begin_umtx_init(With(S, <<FALSE>>), t, m), t)
InitRetried(t, m) == Run(Begin_umtx_init(With(InitFailed(t, m), <<TRUE>>), t, m), t)
ConstructedNow(s, v) ==
    LiveObj(s, v, IF s.pMutexInitFn # NULL THEN "user" ELSE "native")

\* C16: umtx_init on a null non-global handle (the global mutex live and
\* free) whose construction fails returns normally with the handle still
\* null, no object constructed or left behind, the global mutex released and
\* no other handle or callback slot changed; a later umtx_init on the handle
\* whose construction succeeds makes it live.
C16_ConstructionFailureSwallowed ==
    \A t \in Threads, k \in UserHandles :
       /\ gGlobalMutex # NULL /\ ~aborted /\ frame[t].pc = "idle"
       /\ userMutex[k] = NULL /\ Holder(S, GlobalSlot) = 0
       => /\ Returned(InitFailed(t, UserSlot(k)), t)
          /\ InitFailed(t, UserSlot(k)).userMutex[k] = NULL
          /\ Handles(InitFailed(t, UserSlot(k))) = Handles(S)
          /\ CallbackSlots(InitFailed(t, UserSlot(k))) = CallbackSlots(S)
          /\ InitFailed(t, UserSlot(k)).objs = objs
          /\ InitFailed(t, UserSlot(k)).gRecursionCount = gRecursionCount
          /\ {c.fn : c \in {InitFailed(t, UserSlot(k)).calls[i] :
                              i \in 1..Len(InitFailed(t, UserSlot(k)).calls)}}
               = {"lock", "unlock", "init"}
          /\ FreeIds(S) # {} =>
               /\ Returned(InitRetried(t, UserSlot(k)), t)
               /\ ConstructedNow(InitRetried(t, UserSlot(k)), InitRetried(t, UserSlot(k)).userMutex[k])
               /\ Holder(InitRetried(t, UserSlot(k)), GlobalSlot) = 0

\* A thread's construction fails through the init callback while the other
\* thread is in umtx_init on the same handle with a temporary of its own.
C16_Witness ==
    \E t \in Threads, u \in Threads, k \in UserHandles :
       /\ startedLive /\ ~aborted /\ frame[t].pc = "idle" /\ pMutexInitFn # NULL
       /\ userMutex[k] = NULL /\ Holder(S, GlobalSlot) = 0
       /\ frame[u].pc = "init_lock2" /\ IsObj(frame[u].tMutex)
       /\ Len(InitFailed(t, UserSlot(k)).calls) = 5
       /\ InitFailed(t, UserSlot(k)).userMutex[k] = NULL
       /\ IsObj(InitRetried(t, UserSlot(k)).userMutex[k])

\* ---------------------------------------------------------------- C17
\* umtx_unlock(m) and umtx_lock(m) by thread t on a handle that is null,
\* every construction of the call succeeding.
UnlockedNull(t, m) == Begin_umtx_unlock(S, t, m)
LockedNull(t, m) == Run(Begin_umtx_lock(With(S, <<TRUE, TRUE, TRUE>>), t, m), t)
CallsOf(s) == [i \in 1..Len(s.calls) |-> <<s.calls[i].fn, s.calls[i].obj>>]

\* C17: in a release build umtx_unlock on a null handle returns without
\* calling an unlock primitive or callback and changes no handle and no
\* counter; umtx_lock on a null handle runs umtx_init on it first (for a
\* non-global handle the install between umtx_lock(NULL) and
\* umtx_unlock(NULL)) and, the construction succeeding, returns with the
\* handle live and held by the caller and the global mutex not held.
C17_ReleaseBuildNullHandle ==
    \A t \in Threads, m \in ApiSlots :
       ~debug /\ ~aborted /\ frame[t].pc = "idle" /\ Deref(S, Norm(m)) = NULL =>
          /\ UnlockedNull(t, m).calls = <<>>
          /\ Returned(UnlockedNull(t, m), t)
          /\ Memory(UnlockedNull(t, m)) = Memory(S)
          /\ Cardinality(FreeIds(S)) >= 2 /\ Holder(S, GlobalSlot) = 0
               /\ (m # NullArg => gGlobalMutex # NULL) =>
               /\ Returned(LockedNull(t, m), t)
               /\ ConstructedNow(LockedNull(t, m), Deref(LockedNull(t, m), Norm(m)))
               /\ Holder(LockedNull(t, m), Norm(m)) = t
               /\ m # NullArg =>
                    /\ Holder(LockedNull(t, m), GlobalSlot) = 0
                    /\ LockedNull(t, m).gGlobalMutex = gGlobalMutex
                    /\ CallsOf(LockedNull(t, m)) =
                         LET g == gGlobalMutex
                             h == Deref(LockedNull(t, m), Norm(m))
                         IN  << <<"lock", g>>, <<"unlock", g>>, <<"init", h>>,
                                <<"lock", g>>, <<"unlock", g>>, <<"lock", h>> >>

\* A release build with a registered backend: the caller-owned handle is
\* null, umtx_unlock on it does nothing and umtx_lock on it makes six calls
\* of the backend and leaves it held by the caller.
C17_Witness ==
    \E t \in Threads, k \in UserHandles :
       /\ ~debug /\ ~aborted /\ frame[t].pc = "idle" /\ userMutex[k] = NULL
       /\ pMutexLockFn # NULL /\ IsObj(gGlobalMutex) /\ Holder(S, GlobalSlot) = 0
       /\ UnlockedNull(t, UserSlot(k)).calls = <<>>
       /\ Len(LockedNull(t, UserSlot(k)).calls) = 6
       /\ Holder(LockedNull(t, UserSlot(k)), UserSlot(k)) = t

\* ---------------------------------------------------------------- C18
\* Every lock, unlock and destroy call that r logged was made through the
\* implementation that constructed the object it was given, and a callback
\* with the context its object was constructed with.
ByConstructor(r) ==
    \A i \in 1..Len(r.calls) :
       r.calls[i].fn \in {"lock", "unlock", "destroy"} =>
          /\ r.calls[i].ok
          /\ IsObj(r.calls[i].obj)
          /\ objs[r.calls[i].obj].impl = r.calls[i].impl
          /\ r.calls[i].impl = "user" => objs[r.calls[i].obj].ctx = r.calls[i].ctx

\* C18: after every sequence of u_setMutexFunctions, umtx_init, umtx_destroy
\* and umtx_cleanup calls, umtx_lock, umtx_unlock, umtx_destroy and
\* umtx_cleanup hand every live lock object to the implementation that
\* constructed it: the object of the registered init callback to the
\* registered lock, unlock and destroy callbacks with the same context, the
\* object of the built-in primitive to the built-in primitive.
C18_SameImplementation ==
    \A m \in ApiSlots :
       ~aborted /\ Deref(S, Norm(m)) # NULL /\ Holder(S, GlobalSlot) = 0 =>
          /\ ByConstructor(Locked(MainThread, m))
          /\ ByConstructor(Unlocked(MainThread, m))
          /\ ByConstructor(Destroy1(m))
          /\ ByConstructor(AfterCleanup)

\* ---------------------------------------------------------------- C19
\* umtx_atomic_inc or umtx_atomic_dec by the one caller, to its return.
GuardedUpdate(op) == Run(Begin_umtx_atomic(S, MainThread, op), MainThread)

\* C19: on POSIX with a mutex backend registered and no atomic backend, the
\* guard that umtx_init(NULL) constructed through the registered init
\* callback is acquired and released by umtx_atomic_inc and umtx_atomic_dec
\* through the registered lock and unlock callbacks, not through the
\* built-in lock.
C19_GuardLockedThroughBackend ==
    \A op \in AtomicOps :
       /\ ~aborted /\ IsPOSIX(S) /\ Threaded(S)
       /\ pMutexLockFn # NULL /\ AtomicFn(S, op) = NULL
       /\ LiveObj(S, gGlobalMutex, "user")
       /\ LiveObj(S, gIncDecMutex, "user") /\ objs[gIncDecMutex].ctx = gMutexContext
       => /\ ByConstructor(GuardedUpdate(op))
          /\ [i \in 1..Len(GuardedUpdate(op).calls) |->
                <<GuardedUpdate(op).calls[i].fn, GuardedUpdate(op).calls[i].impl,
                  GuardedUpdate(op).calls[i].obj>>]
               = << <<"lock", "user", gIncDecMutex>>, <<"unlock", "user", gIncDecMutex>> >>

\* ---------------------------------------------------------------- C20
\* The incoming status is a failure code.
FailedStatus == {st \in StatusCodes : U_FAILURE(st)}
Untouched(r, st) == r.status = st /\ Memory(r) = Memory(S) /\ r.calls = <<>>

\* C20: u_setMutexFunctions and u_setAtomicIncDecFunctions called with a
\* status that holds a failure code return at once, whatever the arguments
\* and the state of the library: status keeps its value and no callback
\* slot or context changes; with a clear status, a null callback and the
\* library in use, the status becomes U_ILLEGAL_ARGUMENT_ERROR, the test of
\* the arguments coming before the test of the state.
C20_FailedStatusReturnsAtOnce ==
    ~aborted =>
       /\ \A a \in MutexFnArgs :
            /\ a[3] \in FailedStatus => Untouched(SetMutexFns(S, a), a[3])
            /\ a[3] \in ClearStatus /\ HasNull(a[2]) /\ cmemory_inUse(S) =>
                 Untouched(SetMutexFns(S, a), U_ILLEGAL_ARGUMENT_ERROR)
       /\ \A a \in AtomicFnArgs :
            /\ a[3] \in FailedStatus => Untouched(SetAtomicFns(S, a), a[3])
            /\ a[3] \in ClearStatus /\ HasNull(a[2]) /\ cmemory_inUse(S) =>
                 Untouched(SetAtomicFns(S, a), U_ILLEGAL_ARGUMENT_ERROR)

\* The library is in use (uprv_malloc has been called, the global mutex is
\* live) and no backend is registered: a call with four callbacks and
\* status = U_INVALID_STATE_ERROR keeps that status and stores nothing, and
\* a call with a null callback and a clear status reports
\* U_ILLEGAL_ARGUMENT_ERROR.
C20_Witness ==
    /\ ~aborted /\ cmemory_inUse(S) /\ LiveObj(S, gGlobalMutex, "native")
    /\ pMutexInitFn = NULL /\ pIncFn = NULL
    /\ \E a \in MutexFnArgs :
         /\ a[2] = AllFns /\ a[1] # NULL /\ a[3] = U_INVALID_STATE_ERROR
         /\ SetMutexFns(S, a).status = U_INVALID_STATE_ERROR
         /\ SetMutexFns(S, a).pMutexInitFn = NULL
    /\ \E a \in AtomicFnArgs :
         /\ HasNull(a[2]) /\ a[3] = U_ZERO_ERROR
         /\ SetAtomicFns(S, a).status = U_ILLEGAL_ARGUMENT_ERROR

====
